---- MODULE Spec2Model ----
(***************************************************************************)
(* The chain_signatures program (programs/signet/src/lib.rs) as a state    *)
(* machine.  One action per instruction handler; an instruction is atomic  *)
(* (a failing instruction reverts the whole transaction), so each action   *)
(* is one step that either applies the handler's full effect or only       *)
(* records the error it returned.                                          *)
(*                                                                         *)
(* Lamports are counted in units of the rent-exempt minimum of the         *)
(* program-state account, so RentExempt is 1 and no balance lies strictly  *)
(* between "empty" and "rent exempt".                                      *)
(***************************************************************************)
EXTENDS Integers, Sequences, FiniteSets, TLC

\* ---------------------------------------------------------------- bounds
InitLamports == 2      \* lamports every signer holds initially
MaxBatch == 2          \* longest array handed to respond / respond_error
MaxEvents == 2         \* records kept in the stream before emitters stop
LamportModulus == 16   \* stands in for 2^64, the width of a u64 lamport count

\* ------------------------------------------------------------- identities
Signers == {"alice", "bob"}
ProgramStateKey == "program_state"      \* the PDA of seeds [b"program-state"]
DefaultPubkey == "11111111111111111111111111111111"  \* Pubkey::default()
NoneKey == "None"                       \* Option<Signer>::None
\* Pubkey::default() is the address of the system program, an account that
\* exists and holds one unit.
Accounts == Signers \cup {ProgramStateKey, DefaultPubkey}

RentExempt == 1


VARIABLES program_state, lamports, events, ix, user_balance

vars == <<program_state, lamports, events, ix, user_balance>>

\* The program-state account before `init` and after the runtime reclaims it.
NoProgramState ==
    [initialized |-> FALSE, admin |-> DefaultPubkey,
     signature_deposit |-> 0, chain_id |-> ""]

\* What the caller of the last instruction saw: the instruction, the error it
\* returned ("Ok" for none) and its return value.
Outcome(name, err, ret) == [name |-> name, err |-> err, ret |-> ret]

Init ==
    /\ program_state = NoProgramState
    /\ lamports = [k \in Accounts |->
                      IF k \in Signers THEN InitLamports
                      ELSE IF k = DefaultPubkey THEN 1 ELSE 0]
    /\ events = <<>>
    /\ ix = Outcome("none", "Ok", 0)
    /\ user_balance = 0

\* ------------------------------------------------------------ arithmetic
SubLamports(a, b) == (a - b) % LamportModulus
AddLamports(a, b) == (a + b) % LamportModulus

\* anchor_lang::system_program::transfer
SystemTransfer(l, from, to, amount) ==
    LET debited == [l EXCEPT ![from] = SubLamports(@, amount)]
    IN  [debited EXCEPT ![to] = AddLamports(@, amount)]

\* An instruction that returned an error: the transaction is reverted and
\* only the error reaches the caller.
Rejected(name, error) ==
    /\ ix' = Outcome(name, error, 0)
    /\ UNCHANGED <<program_state, lamports, events, user_balance>>

Emits(n) == Len(events) + n <= MaxEvents

\* ------------------------------------------------------------ initialize
\* Mutant: only one designated account may create the program state.
initialize_designated(admin, signature_deposit, chain_id) ==
    IF program_state.initialized
        THEN Rejected("initialize", "AccountAlreadyInUse")
        ELSE IF admin # "alice"
        THEN Rejected("initialize", "Unauthorized")
        ELSE IF lamports[admin] < RentExempt
        THEN Rejected("initialize", "InsufficientLamports")
        ELSE /\ lamports' = SystemTransfer(lamports, admin, ProgramStateKey, RentExempt)
             /\ program_state' = [initialized |-> TRUE, admin |-> admin,
                                  signature_deposit |-> signature_deposit,
                                  chain_id |-> chain_id]
             /\ ix' = Outcome("initialize", "Ok", 0)
             /\ UNCHANGED <<events, user_balance>>

initialize(admin, signature_deposit, chain_id) ==
    IF program_state.initialized
        THEN Rejected("initialize", "AccountAlreadyInUse")
        ELSE IF lamports[admin] < RentExempt
        THEN Rejected("initialize", "InsufficientLamports")
        ELSE /\ lamports' = SystemTransfer(lamports, admin, ProgramStateKey, RentExempt)
             /\ program_state' = [initialized |-> TRUE, admin |-> admin,
                                  signature_deposit |-> signature_deposit,
                                  chain_id |-> chain_id]
             /\ ix' = Outcome("initialize", "Ok", 0)
             /\ UNCHANGED user_balance
             /\ UNCHANGED events

\* ---------------------------------------------------- account constraints
\* Account<'info, ProgramState>: the account must exist and hold a ProgramState.
AccountInitialized == program_state.initialized

\* Mutant: the has_one constraint left out.
HasOneAnySigner(admin) == TRUE

\* has_one = admin @ ChainSignaturesError::Unauthorized
HasOneAdmin(admin) == program_state.admin = admin

\* The account exists for as long as it holds lamports: once a transaction
\* leaves it with none, the account and its data are gone and `init` can
\* create it again.
AccountAfter(state, l) ==
    IF l[ProgramStateKey] = 0 THEN NoProgramState ELSE state

\* ---------------------------------------------------------------- events
DepositUpdatedEvent(old_deposit, new_deposit) ==
    [kind |-> "DepositUpdatedEvent", old_deposit |-> old_deposit,
     new_deposit |-> new_deposit]

FundsWithdrawnEvent(amount, recipient) ==
    [kind |-> "FundsWithdrawnEvent", amount |-> amount, recipient |-> recipient]

\* Mutant: the record names the account that paid as the sender.
SignatureRequestedEventOfPayer(sender, args, deposit, chain_id, fee_payer) ==
    [kind |-> "SignatureRequestedEvent",
     sender |-> IF fee_payer = "None" THEN sender ELSE fee_payer,
     payload |-> args.payload, key_version |-> args.key_version,
     deposit |-> deposit, chain_id |-> chain_id, path |-> args.path,
     algo |-> args.algo, dest |-> args.dest, params |-> args.params,
     fee_payer |-> fee_payer]

SignatureRequestedEvent(sender, args, deposit, chain_id, fee_payer) ==
    [kind |-> "SignatureRequestedEvent", sender |-> sender,
     payload |-> args.payload, key_version |-> args.key_version,
     deposit |-> deposit, chain_id |-> chain_id, path |-> args.path,
     algo |-> args.algo, dest |-> args.dest, params |-> args.params,
     fee_payer |-> fee_payer]

SignBidirectionalEvent(sender, args, deposit) ==
    [kind |-> "SignBidirectionalEvent", sender |-> sender,
     serialized_transaction |-> args.serialized_transaction,
     caip2_id |-> args.caip2_id, key_version |-> args.key_version,
     deposit |-> deposit, path |-> args.path, algo |-> args.algo,
     dest |-> args.dest, params |-> args.params,
     program_id |-> args.program_id,
     output_deserialization_schema |-> args.output_deserialization_schema,
     respond_serialization_schema |-> args.respond_serialization_schema]

SignatureRespondedEvent(request_id, responder, signature) ==
    [kind |-> "SignatureRespondedEvent", request_id |-> request_id,
     responder |-> responder, signature |-> signature]

SignatureErrorEvent(request_id, responder, error) ==
    [kind |-> "SignatureErrorEvent", request_id |-> request_id,
     responder |-> responder, error |-> error]

RespondBidirectionalEvent(request_id, responder, serialized_output, signature) ==
    [kind |-> "RespondBidirectionalEvent", request_id |-> request_id,
     responder |-> responder, serialized_output |-> serialized_output,
     signature |-> signature]

\* -------------------------------------------------------- update_deposit
update_deposit(admin, new_deposit) ==
    IF ~AccountInitialized
        THEN Rejected("update_deposit", "AccountNotInitialized")
        ELSE IF ~HasOneAdmin(admin)
        THEN Rejected("update_deposit", "Unauthorized")
        ELSE /\ Emits(1)
             /\ program_state' = [program_state EXCEPT !.signature_deposit = new_deposit]
             /\ events' = Append(events,
                    DepositUpdatedEvent(program_state.signature_deposit, new_deposit))
             /\ ix' = Outcome("update_deposit", "Ok", 0)
             /\ UNCHANGED user_balance
             /\ UNCHANGED lamports

\* -------------------------------------------------------- withdraw_funds
\* Mutant: the balance check left out.
SufficientFundsUnchecked(amount) == TRUE

\* Mutant: the balance check compares with > instead of >=.
SufficientFundsStrict(amount) == lamports[ProgramStateKey] > amount

\* require!(program_state_info.lamports() >= amount, InsufficientFunds)
SufficientFunds(amount) == lamports[ProgramStateKey] >= amount

\* Mutant: the recipient check left out.
ValidRecipientAny(recipient) == TRUE

\* require!(recipient.key() != Pubkey::default(), InvalidRecipient)
ValidRecipient(recipient) == recipient # DefaultPubkey

\* **program_state_info.try_borrow_mut_lamports()? -= amount;
\* **recipient.try_borrow_mut_lamports()? += amount;
\* Two statements on the accounts' lamport cells, one after the other: when
\* both accounts are the same account they act on the same cell.
WithdrawLamports(l, recipient, amount) ==
    LET debited == [l EXCEPT ![ProgramStateKey] = SubLamports(@, amount)]
    IN  [debited EXCEPT ![recipient] = AddLamports(@, amount)]

withdraw_funds(admin, recipient, amount) ==
    IF ~AccountInitialized
        THEN Rejected("withdraw_funds", "AccountNotInitialized")
        ELSE IF ~HasOneAdmin(admin)
        THEN Rejected("withdraw_funds", "Unauthorized")
        ELSE IF ~SufficientFunds(amount)
        THEN Rejected("withdraw_funds", "InsufficientFunds")
        ELSE IF ~ValidRecipient(recipient)
        THEN Rejected("withdraw_funds", "InvalidRecipient")
        ELSE /\ Emits(1)
             /\ lamports' = WithdrawLamports(lamports, recipient, amount)
             /\ events' = Append(events, FundsWithdrawnEvent(amount, recipient))
             /\ program_state' = AccountAfter(program_state, lamports')
             /\ ix' = Outcome("withdraw_funds", "Ok", 0)
             /\ UNCHANGED user_balance

\* ------------------------------------------------------------------ sign
\* Mutant: the requester always pays.
PayerIsRequester(requester, fee_payer) == requester

\* match &ctx.accounts.fee_payer { Some(fee_payer) => fee_payer, None => requester }
Payer(requester, fee_payer) ==
    IF fee_payer # NoneKey THEN fee_payer ELSE requester

\* Mutant: every signer must hold the deposit, not only the payer.
SufficientDepositOfAll(payer) ==
    \A k \in Signers : lamports[k] >= program_state.signature_deposit

\* Mutant: the deposit check compares with > instead of >=.
SufficientDepositStrict(payer) == lamports[payer] > program_state.signature_deposit

\* require!(payer.lamports() >= program_state.signature_deposit, InsufficientDeposit)
SufficientDeposit(payer) == lamports[payer] >= program_state.signature_deposit

\* Mutant: right after a deposit update the request is still charged the
\* deposit that was stored before it.
sign_at_old_deposit(requester, fee_payer, args) ==
    LET payer == Payer(requester, fee_payer)
        charged == IF /\ Len(events) > 0
                      /\ events[Len(events)].kind = "DepositUpdatedEvent"
                   THEN events[Len(events)].old_deposit
                   ELSE program_state.signature_deposit
    IN  IF ~AccountInitialized
        THEN Rejected("sign", "AccountNotInitialized")
        ELSE IF lamports[payer] < charged
        THEN Rejected("sign", "InsufficientDeposit")
        ELSE /\ Emits(1)
             /\ lamports' = SystemTransfer(lamports, payer, ProgramStateKey, charged)
             /\ events' = Append(events,
                    SignatureRequestedEvent(requester, args, charged,
                        program_state.chain_id, fee_payer))
             /\ ix' = Outcome("sign", "Ok", 0)
             /\ UNCHANGED <<program_state, user_balance>>

sign(requester, fee_payer, args) ==
    LET payer == Payer(requester, fee_payer)
    IN  IF ~AccountInitialized
        THEN Rejected("sign", "AccountNotInitialized")
        ELSE IF ~SufficientDeposit(payer)
        THEN Rejected("sign", "InsufficientDeposit")
        ELSE /\ Emits(1)
             /\ lamports' = SystemTransfer(lamports, payer, ProgramStateKey,
                                           program_state.signature_deposit)
             /\ events' = Append(events,
                    SignatureRequestedEvent(requester, args,
                        program_state.signature_deposit, program_state.chain_id,
                        fee_payer))
             /\ ix' = Outcome("sign", "Ok", 0)
             /\ UNCHANGED user_balance
             /\ UNCHANGED program_state

\* ---------------------------------------------------- sign_bidirectional
\* Mutant: the emptiness check left out.
ValidTransactionAny(serialized_transaction) == TRUE

\* require!(!serialized_transaction.is_empty(), InvalidTransaction)
ValidTransaction(serialized_transaction) == Len(serialized_transaction) # 0

\* Mutant: the transaction is looked at before the payer's balance.
sign_bidirectional_transaction_first(requester, fee_payer, args) ==
    LET payer == Payer(requester, fee_payer)
    IN  IF ~AccountInitialized
        THEN Rejected("sign_bidirectional", "AccountNotInitialized")
        ELSE IF ~ValidTransaction(args.serialized_transaction)
        THEN Rejected("sign_bidirectional", "InvalidTransaction")
        ELSE IF ~SufficientDeposit(payer)
        THEN Rejected("sign_bidirectional", "InsufficientDeposit")
        ELSE /\ Emits(1)
             /\ lamports' = SystemTransfer(lamports, payer, ProgramStateKey,
                                           program_state.signature_deposit)
             /\ events' = Append(events,
                    SignBidirectionalEvent(requester, args,
                        program_state.signature_deposit))
             /\ ix' = Outcome("sign_bidirectional", "Ok", 0)
             /\ UNCHANGED <<program_state, user_balance>>

sign_bidirectional(requester, fee_payer, args) ==
    LET payer == Payer(requester, fee_payer)
    IN  IF ~AccountInitialized
        THEN Rejected("sign_bidirectional", "AccountNotInitialized")
        ELSE IF ~SufficientDeposit(payer)
        THEN Rejected("sign_bidirectional", "InsufficientDeposit")
        ELSE IF ~ValidTransaction(args.serialized_transaction)
        THEN Rejected("sign_bidirectional", "InvalidTransaction")
        ELSE /\ Emits(1)
             /\ lamports' = SystemTransfer(lamports, payer, ProgramStateKey,
                                           program_state.signature_deposit)
             /\ events' = Append(events,
                    SignBidirectionalEvent(requester, args,
                        program_state.signature_deposit))
             /\ ix' = Outcome("sign_bidirectional", "Ok", 0)
             /\ UNCHANGED user_balance
             /\ UNCHANGED program_state

\* --------------------------------------------------------------- respond
\* Mutant: only a missing signature is rejected.
EnoughSignatures(request_ids, signatures) == Len(request_ids) <= Len(signatures)

\* require!(request_ids.len() == signatures.len(), InvalidInputLength)
SameLength(request_ids, signatures) == Len(request_ids) = Len(signatures)

\* Mutant: responses are recorded only once the stream holds a request.
RespondedEventsAfterRequest(responder, request_ids, signatures) ==
    IF \E i \in 1..Len(events) :
          events[i].kind \in {"SignatureRequestedEvent", "SignBidirectionalEvent"}
    THEN [i \in 1..Len(request_ids) |->
             SignatureRespondedEvent(request_ids[i], responder, signatures[i])]
    ELSE <<>>

\* Mutant: only the admin's responses are recorded.
RespondedEventsOfAdmin(responder, request_ids, signatures) ==
    IF responder = program_state.admin
    THEN [i \in 1..Len(request_ids) |->
             SignatureRespondedEvent(request_ids[i], responder, signatures[i])]
    ELSE <<>>

\* Mutant: the loop runs from the last index down.
RespondedEventsReversed(responder, request_ids, signatures) ==
    [i \in 1..Len(request_ids) |->
        SignatureRespondedEvent(request_ids[Len(request_ids) + 1 - i], responder,
                                signatures[Len(request_ids) + 1 - i])]

\* for i in 0..request_ids.len() { emit_cpi!(SignatureRespondedEvent { .. }) }
RespondedEvents(responder, request_ids, signatures) ==
    [i \in 1..Len(request_ids) |->
        SignatureRespondedEvent(request_ids[i], responder, signatures[i])]

\* Mutant: an identifier that already has a response is refused.
respond_once(responder, request_ids, signatures) ==
    IF ~SameLength(request_ids, signatures)
        THEN Rejected("respond", "InvalidInputLength")
        ELSE IF \E i \in 1..Len(request_ids), j \in 1..Len(events) :
                   /\ events[j].kind = "SignatureRespondedEvent"
                   /\ events[j].request_id = request_ids[i]
        THEN Rejected("respond", "AlreadyResponded")
        ELSE /\ Emits(Len(request_ids))
             /\ events' = events \o RespondedEvents(responder, request_ids, signatures)
             /\ ix' = Outcome("respond", "Ok", 0)
             /\ UNCHANGED <<program_state, lamports, user_balance>>

respond(responder, request_ids, signatures) ==
    IF ~SameLength(request_ids, signatures)
        THEN Rejected("respond", "InvalidInputLength")
        ELSE /\ Emits(Len(request_ids))
             /\ events' = events \o RespondedEvents(responder, request_ids, signatures)
             /\ ix' = Outcome("respond", "Ok", 0)
             /\ UNCHANGED user_balance
             /\ UNCHANGED <<program_state, lamports>>

\* --------------------------------------------------------- respond_error
\* Mutant: the entries are taken from the last one back.
ErrorEventsReversed(responder, errors) ==
    [i \in 1..Len(errors) |->
        SignatureErrorEvent(errors[Len(errors) + 1 - i].request_id, responder,
                            errors[Len(errors) + 1 - i].error_message)]

\* for error in errors { emit!(SignatureErrorEvent { .. }) }
ErrorEvents(responder, errors) ==
    [i \in 1..Len(errors) |->
        SignatureErrorEvent(errors[i].request_id, responder, errors[i].error_message)]

\* Mutant: an error response hands one unit of the pool back to alice.
respond_error_refunding(responder, errors) ==
    /\ Emits(Len(errors))
    /\ events' = events \o ErrorEvents(responder, errors)
    /\ lamports' = IF lamports[ProgramStateKey] > RentExempt
                   THEN SystemTransfer(lamports, ProgramStateKey, "alice", 1)
                   ELSE lamports
    /\ ix' = Outcome("respond_error", "Ok", 0)
    /\ UNCHANGED <<program_state, user_balance>>

\* Mutant: the records are put at the head of the stream.
respond_error_at_head(responder, errors) ==
    /\ Emits(Len(errors))
    /\ events' = ErrorEvents(responder, errors) \o events
    /\ ix' = Outcome("respond_error", "Ok", 0)
    /\ UNCHANGED <<program_state, lamports, user_balance>>

respond_error(responder, errors) ==
    /\ Emits(Len(errors))
    /\ events' = events \o ErrorEvents(responder, errors)
    /\ ix' = Outcome("respond_error", "Ok", 0)
    /\ UNCHANGED user_balance
    /\ UNCHANGED <<program_state, lamports>>

\* ------------------------------------------------- get_signature_deposit
get_signature_deposit ==
    IF ~AccountInitialized
        THEN Rejected("get_signature_deposit", "AccountNotInitialized")
        ELSE /\ ix' = Outcome("get_signature_deposit", "Ok", program_state.signature_deposit)
             /\ UNCHANGED <<program_state, lamports, events, user_balance>>

\* ------------------------------------------------- respond_bidirectional
\* Mutant: a result is refused unless the stream holds a bidirectional request.
respond_bidirectional_of_request(responder, request_id, serialized_output, signature) ==
    IF \A i \in 1..Len(events) : events[i].kind # "SignBidirectionalEvent"
    THEN Rejected("respond_bidirectional", "InvalidRequest")
    ELSE /\ Emits(1)
         /\ events' = Append(events,
                RespondBidirectionalEvent(request_id, responder, serialized_output,
                                          signature))
         /\ ix' = Outcome("respond_bidirectional", "Ok", 0)
         /\ UNCHANGED <<program_state, lamports, user_balance>>

\* Mutant: a result is refused while no program state exists.
respond_bidirectional_initialized(responder, request_id, serialized_output, signature) ==
    IF ~AccountInitialized
    THEN Rejected("respond_bidirectional", "AccountNotInitialized")
    ELSE /\ Emits(1)
         /\ events' = Append(events,
                RespondBidirectionalEvent(request_id, responder, serialized_output,
                                          signature))
         /\ ix' = Outcome("respond_bidirectional", "Ok", 0)
         /\ UNCHANGED <<program_state, lamports, user_balance>>

respond_bidirectional(responder, request_id, serialized_output, signature) ==
    /\ Emits(1)
    /\ events' = Append(events,
           RespondBidirectionalEvent(request_id, responder, serialized_output,
                                     signature))
    /\ ix' = Outcome("respond_bidirectional", "Ok", 0)
    /\ UNCHANGED user_balance
    /\ UNCHANGED <<program_state, lamports>>

\* ---------------------------------------------------------------- inputs
FeePayers == Signers \cup {NoneKey}
Amounts == 0..(InitLamports + 1)

ArgsA ==
    [payload |-> "hashA", key_version |-> 0, path |-> "eth", algo |-> "secp256k1",
     dest |-> "ethereum", params |-> "{}"]

\* const RESPONSE_DERIVATION_PATH: &str = "solana response key";
RESPONSE_DERIVATION_PATH == "solana response key"

\* The same request with the path the responses are signed under.
ArgsResponsePath == [ArgsA EXCEPT !.path = RESPONSE_DERIVATION_PATH]

BidirectionalArgs(tx, program_id) ==
    [serialized_transaction |-> tx, caip2_id |-> "eip155:1", key_version |-> 0,
     path |-> "eth", algo |-> "", dest |-> "ethereum", params |-> "",
     program_id |-> program_id,
     output_deserialization_schema |-> <<1>>,
     respond_serialization_schema |-> <<2>>]

EmptyTx == <<>>
SomeTx == <<2, 192>>

RequestIds == {"id1", "id2"}
Signatures == {"sigA", "sigB"}
Outputs == {<<>>, <<222, 173, 190, 239, 1>>}
ErrorResponses ==
    {[request_id |-> "id1", error_message |-> "failed"],
     [request_id |-> "id2", error_message |-> "timeout"]}

Batches(S) == UNION {[1..n -> S] : n \in 0..MaxBatch}

\* The calls a specification draws from: one set of argument tuples per
\* instruction.
NextOn(in) ==
    \/ \E c \in in.initialize : initialize(c[1], c[2], c[3])
    \/ \E c \in in.update_deposit : update_deposit(c[1], c[2])
    \/ \E c \in in.withdraw_funds : withdraw_funds(c[1], c[2], c[3])
    \/ \E c \in in.sign : sign(c[1], c[2], c[3])
    \/ \E c \in in.sign_bidirectional : sign_bidirectional(c[1], c[2], c[3])
    \/ \E c \in in.respond : respond(c[1], c[2], c[3])
    \/ \E c \in in.respond_error : respond_error(c[1], c[2])
    \/ get_signature_deposit
    \/ \E c \in in.respond_bidirectional : respond_bidirectional(c[1], c[2], c[3], c[4])

\* Every instruction with a few calls each.
AllCalls ==
    [initialize |-> Signers \X {1, InitLamports + 1} \X {"solana:localnet"},
     update_deposit |-> Signers \X {0, InitLamports},
     withdraw_funds |->
         ({"alice"} \X {"bob", ProgramStateKey, DefaultPubkey} \X Amounts) \cup
         {<<"bob", "bob", 1>>},
     sign |-> ({"alice"} \X FeePayers \X {ArgsA}) \cup {<<"bob", NoneKey, ArgsResponsePath>>},
     sign_bidirectional |-> {"bob"} \X {NoneKey, "alice"} \X
         {BidirectionalArgs(EmptyTx, DefaultPubkey), BidirectionalArgs(SomeTx, DefaultPubkey)},
     respond |-> {"bob"} \X {<<>>, <<"id1">>} \X {<<"sigA">>},
     respond_error |-> {"bob"} \X {<<[request_id |-> "id1", error_message |-> "failed"]>>},
     respond_bidirectional |-> {"bob"} \X {"id1"} \X {<<222, 173, 190, 239, 1>>} \X {"sigA"}]

Next == NextOn(AllCalls)

Spec == Init /\ [][Next]_vars

\* Pairs of arrays up to MaxBatch: every pair of equal length, and every pair
\* of unequal length over one identifier and one signature.
RespondPairs ==
    {p \in Batches(RequestIds) \X Batches(Signatures) : Len(p[1]) = Len(p[2])} \cup
    (Batches({"id1"}) \X Batches({"sigA"}))

\* The responders' instructions with these pairs, every list of error
\* responses up to MaxBatch and every result over two identifiers, two outputs
\* and two signatures; the other instructions with one call each.
RespondCalls ==
    [initialize |-> {<<"alice", 1, "solana:localnet">>},
     update_deposit |-> {<<"alice", 0>>},
     withdraw_funds |-> {<<"alice", "bob", 1>>},
     sign |-> {<<"bob", NoneKey, ArgsA>>},
     sign_bidirectional |-> {<<"bob", NoneKey, BidirectionalArgs(SomeTx, DefaultPubkey)>>},
     respond |-> {<<"bob", p[1], p[2]>> : p \in RespondPairs},
     respond_error |-> {"bob"} \X Batches(ErrorResponses),
     respond_bidirectional |-> {"bob"} \X RequestIds \X Outputs \X Signatures]

NextRespond == NextOn(RespondCalls)

SpecRespond == Init /\ [][NextRespond]_vars

\* ================================================================ claims
Pool == lamports[ProgramStateKey]
Deposit == program_state.signature_deposit
Last == events[Len(events)]
State == <<program_state, lamports, events>>

\* The stream after the step is the stream before it plus the records `added`.
Appended(added) == events' = events \o added

\* Only the balances of `a` and `b` differ across the step.
OnlyMoved(a, b) == \A k \in Accounts \ {a, b} : lamports'[k] = lamports[k]

RequestCalls(calls) ==
    {<<"sign", c>> : c \in calls.sign} \cup
    {<<"sign_bidirectional", c>> : c \in calls.sign_bidirectional}

\* Whether the step is the call `c` of the instruction (the outcome names the
\* instruction, which is looked at first).
IsInitialize(c) == ix'.name = "initialize" /\ initialize(c[1], c[2], c[3])
IsUpdateDeposit(c) == ix'.name = "update_deposit" /\ update_deposit(c[1], c[2])
IsWithdrawFunds(c) == ix'.name = "withdraw_funds" /\ withdraw_funds(c[1], c[2], c[3])
IsRespond(c) == ix'.name = "respond" /\ respond(c[1], c[2], c[3])
IsRespondError(c) == ix'.name = "respond_error" /\ respond_error(c[1], c[2])
IsRespondBidirectional(c) ==
    ix'.name = "respond_bidirectional" /\ respond_bidirectional(c[1], c[2], c[3], c[4])

Requests == RequestCalls(AllCalls)

\* Whether the step is the request `r` (an element of RequestCalls).
IsRequest(r) ==
    /\ ix'.name = r[1]
    /\ IF r[1] = "sign" THEN sign(r[2][1], r[2][2], r[2][3])
       ELSE sign_bidirectional(r[2][1], r[2][2], r[2][3])

\* The account a request names as paying: the fee payer when given.
NamedPayer(r) == IF r[2][2] = NoneKey THEN r[2][1] ELSE r[2][2]

\* C1: every successful sign or sign_bidirectional moves exactly the
\* signature_deposit stored at the time of the call from the payer (the fee
\* payer when one is supplied, else the requester) to the program-state
\* account, and changes no other balance.
C1_DepositMoves ==
    [][\A r \in Requests :
          (ix'.err = "Ok" /\ IsRequest(r)) =>
              /\ lamports'[ProgramStateKey] = Pool + Deposit
              /\ lamports'[NamedPayer(r)] = lamports[NamedPayer(r)] - Deposit
              /\ OnlyMoved(ProgramStateKey, NamedPayer(r))]_vars

\* A distinct fee payer has paid a non-zero deposit for the requester.
C1_Witness ==
    /\ ix = Outcome("sign", "Ok", 0)
    /\ Len(events) > 0
    /\ Last.kind = "SignatureRequestedEvent"
    /\ Last.fee_payer \notin {NoneKey, Last.sender}
    /\ Last.deposit > 0
    /\ lamports[Last.sender] = InitLamports
    /\ lamports[Last.fee_payer] < InitLamports

\* Whether a request carries a transaction body the handler accepts (sign
\* takes a fixed 32-byte payload and has no such condition).
WellFormed(r) == r[1] = "sign" \/ r[2][3].serialized_transaction # <<>>

RequestKind(r) ==
    IF r[1] = "sign" THEN "SignatureRequestedEvent" ELSE "SignBidirectionalEvent"

\* C2: with the program state in place, a (well-formed) sign or
\* sign_bidirectional succeeds when the payer holds at least the deposit, and
\* with exactly the deposit it leaves the payer with 0; it emits exactly one
\* request record.  With less than the deposit it fails with
\* InsufficientDeposit, moves no funds and emits no record.
C2_DepositBoundary ==
    [][\A r \in Requests :
          (program_state.initialized /\ IsRequest(r)) =>
              /\ (lamports[NamedPayer(r)] >= Deposit /\ WellFormed(r)) =>
                    /\ ix'.err = "Ok"
                    /\ lamports[NamedPayer(r)] = Deposit => lamports'[NamedPayer(r)] = 0
                    /\ Len(events') = Len(events) + 1
                    /\ SubSeq(events', 1, Len(events)) = events
                    /\ events'[Len(events')].kind = RequestKind(r)
              /\ lamports[NamedPayer(r)] < Deposit =>
                    /\ ix'.err = "InsufficientDeposit"
                    /\ UNCHANGED State]_vars

\* A payer that held exactly the (non-zero) deposit has been left with 0.
C2_Witness ==
    /\ ix = Outcome("sign", "Ok", 0)
    /\ Len(events) > 0
    /\ Last.kind = "SignatureRequestedEvent"
    /\ Last.deposit > 0
    /\ lamports[IF Last.fee_payer = NoneKey THEN Last.sender ELSE Last.fee_payer] = 0

\* The error conditions whose precondition a call violates in this state.
NoStateErrors == IF program_state.initialized THEN {} ELSE {"AccountNotInitialized"}

AdminErrors(signer) ==
    IF program_state.initialized /\ program_state.admin # signer
    THEN {"Unauthorized"} ELSE NoStateErrors

InitializeErrors(c) ==
    (IF program_state.initialized THEN {"AccountAlreadyInUse"} ELSE {}) \cup
    (IF lamports[c[1]] < RentExempt THEN {"InsufficientLamports"} ELSE {})

WithdrawErrors(c) ==
    AdminErrors(c[1]) \cup
    (IF Pool < c[3] THEN {"InsufficientFunds"} ELSE {}) \cup
    (IF c[2] = DefaultPubkey THEN {"InvalidRecipient"} ELSE {})

RequestErrors(r) ==
    NoStateErrors \cup
    (IF program_state.initialized /\ lamports[NamedPayer(r)] < Deposit
     THEN {"InsufficientDeposit"} ELSE {}) \cup
    (IF WellFormed(r) THEN {} ELSE {"InvalidTransaction"})

RespondErrors(c) == IF Len(c[2]) # Len(c[3]) THEN {"InvalidInputLength"} ELSE {}

\* The call succeeds when it violates nothing and otherwise reports one of the
\* conditions it violates.
Reports(violated) ==
    IF violated = {} THEN ix'.err = "Ok" ELSE ix'.err \in violated

\* C3: a rejected call of any instruction leaves admin, signature_deposit,
\* chain_id, every balance and the record stream as they were, and the error
\* it reports names a precondition the call violates; a call that violates
\* no precondition is not rejected.
C3_RejectedChangesNothing ==
    [][/\ ix'.err # "Ok" => UNCHANGED State
       /\ ix'.name = "initialize" =>
             \A c \in AllCalls.initialize : IsInitialize(c) => Reports(InitializeErrors(c))
       /\ ix'.name = "update_deposit" =>
             \A c \in AllCalls.update_deposit :
                IsUpdateDeposit(c) => Reports(AdminErrors(c[1]))
       /\ ix'.name = "withdraw_funds" =>
             \A c \in AllCalls.withdraw_funds :
                IsWithdrawFunds(c) => Reports(WithdrawErrors(c))
       /\ ix'.name \in {"sign", "sign_bidirectional"} =>
             \A r \in Requests : IsRequest(r) => Reports(RequestErrors(r))
       /\ ix'.name = "respond" =>
             \A c \in AllCalls.respond : IsRespond(c) => Reports(RespondErrors(c))
       /\ ix'.name = "respond_error" =>
             \A c \in AllCalls.respond_error : IsRespondError(c) => Reports({})
       /\ ix'.name = "respond_bidirectional" =>
             \A c \in AllCalls.respond_bidirectional :
                IsRespondBidirectional(c) => Reports({})]_vars

\* A call has been rejected in a state that holds deposits and records.
C3_Witness ==
    /\ ix = Outcome("sign_bidirectional", "InvalidTransaction", 0)
    /\ Len(events) > 0
    /\ Pool > RentExempt

\* C4: update_deposit and withdraw_funds signed by anyone but the stored admin
\* fail with Unauthorized whatever the arguments and change nothing.
C4_AdminOnly ==
    [][/\ \A c \in AllCalls.update_deposit :
             (/\ program_state.initialized
              /\ c[1] # program_state.admin
              /\ IsUpdateDeposit(c)) =>
                 (ix'.err = "Unauthorized" /\ UNCHANGED State)
       /\ \A c \in AllCalls.withdraw_funds :
             (/\ program_state.initialized
              /\ c[1] # program_state.admin
              /\ IsWithdrawFunds(c)) =>
                 (ix'.err = "Unauthorized" /\ UNCHANGED State)]_vars

\* A withdrawal has been refused as Unauthorized while the pool held deposits.
C4_Witness ==
    /\ ix = Outcome("withdraw_funds", "Unauthorized", 0)
    /\ Pool > RentExempt

\* C5: withdraw_funds by the admin for more than the program-state account
\* holds fails with InsufficientFunds and changes no balance; an amount equal
\* to the balance is not rejected by that check.
C5_WithdrawBeyondPool ==
    [][\A c \in AllCalls.withdraw_funds :
          (/\ program_state.initialized
           /\ c[1] = program_state.admin
           /\ IsWithdrawFunds(c)) =>
              /\ c[3] > Pool => (ix'.err = "InsufficientFunds" /\ UNCHANGED State)
              /\ c[3] = Pool => ix'.err # "InsufficientFunds"]_vars

\* A withdrawal has been refused for want of funds in a pool that holds some.
C5_Witness ==
    /\ ix = Outcome("withdraw_funds", "InsufficientFunds", 0)
    /\ Pool > RentExempt

\* C6 as stated: withdraw_funds by the admin to Pubkey::default() fails with
\* InvalidRecipient for every amount, larger than the pool included.
C6_InvalidRecipientAlways ==
    [][\A c \in AllCalls.withdraw_funds :
          (/\ program_state.initialized
           /\ c[1] = program_state.admin
           /\ IsWithdrawFunds(c)
           /\ c[2] = DefaultPubkey) =>
              (ix'.err = "InvalidRecipient" /\ UNCHANGED State)]_vars

\* C6: withdraw_funds by the admin to Pubkey::default() fails for every amount
\* and changes nothing: with InsufficientFunds, which is checked first, when
\* the amount exceeds the pool, and with InvalidRecipient otherwise.
C6_DefaultRecipientFails ==
    [][\A c \in AllCalls.withdraw_funds :
          (/\ program_state.initialized
           /\ c[1] = program_state.admin
           /\ IsWithdrawFunds(c)
           /\ c[2] = DefaultPubkey) =>
              /\ ix'.err = IF c[3] > Pool THEN "InsufficientFunds" ELSE "InvalidRecipient"
              /\ UNCHANGED State]_vars

\* A withdrawal the pool could pay has been refused for its recipient.
C6_Witness ==
    /\ ix = Outcome("withdraw_funds", "InvalidRecipient", 0)
    /\ Pool > RentExempt

\* C7: every successful withdraw_funds(amount) takes exactly amount from the
\* program-state account, adds exactly amount to the recipient and emits one
\* FundsWithdrawnEvent with that amount and recipient, whichever account
\* other than Pubkey::default() is named as recipient.
C7_WithdrawMoves ==
    [][\A c \in AllCalls.withdraw_funds :
          (ix'.err = "Ok" /\ IsWithdrawFunds(c)) =>
              /\ lamports'[ProgramStateKey] = Pool - c[3]
              /\ lamports'[c[2]] = lamports[c[2]] + c[3]
              /\ Appended(<<[kind |-> "FundsWithdrawnEvent", amount |-> c[3],
                             recipient |-> c[2]]>>)]_vars

\* Every lamport of the model: what the signers start with and the system
\* program's unit.
Supply == InitLamports * Cardinality(Signers) + 1

\* C8: in every reachable state the balance of the program-state account is
\* a balance the accounts can hold between them: the u64 subtraction of
\* withdraw_funds never wraps below zero.
C8_PoolNeverWraps == Pool \in 0..Supply

\* A withdrawal has taken the pool's last lamport, deposits included.
C8_Witness ==
    /\ ix = Outcome("withdraw_funds", "Ok", 0)
    /\ Pool = 0
    /\ Last.kind = "FundsWithdrawnEvent"
    /\ Last.amount > RentExempt

\* C9: respond with arrays of different lengths fails with InvalidInputLength
\* and emits nothing.
C9_LengthMismatch ==
    [][\A c \in {d \in RespondCalls.respond : Len(d[2]) # Len(d[3])} :
          IsRespond(c) =>
              (ix'.err = "InvalidInputLength" /\ UNCHANGED State)]_vars

\* A mismatched batch has been refused after records were emitted.
C9_Witness ==
    /\ ix = Outcome("respond", "InvalidInputLength", 0)
    /\ Len(events) > 0

\* C10: respond with two arrays of equal length n succeeds and appends exactly
\* n SignatureRespondedEvent records in input order, the i-th carrying
\* request_ids[i], signatures[i] and the caller as responder.
C10_RespondInOrder ==
    [][\A c \in {d \in RespondCalls.respond : Len(d[2]) = Len(d[3])} :
          IsRespond(c) =>
              /\ ix'.err = "Ok"
              /\ Appended([i \in 1..Len(c[2]) |->
                     [kind |-> "SignatureRespondedEvent", request_id |-> c[2][i],
                      responder |-> c[1], signature |-> c[3][i]]])
              /\ UNCHANGED <<program_state, lamports>>]_vars

\* A batch of two different identifiers and signatures has been answered.
C10_Witness ==
    /\ ix = Outcome("respond", "Ok", 0)
    /\ Len(events) >= 2
    /\ Last.kind = "SignatureRespondedEvent"
    /\ events[Len(events) - 1].kind = "SignatureRespondedEvent"
    /\ events[Len(events) - 1].request_id # Last.request_id
    /\ events[Len(events) - 1].signature # Last.signature
\* C11: respond_bidirectional succeeds whatever the identifier, the output
\* (empty included) and the signature, and appends exactly one
\* RespondBidirectionalEvent carrying them unchanged; respond_error succeeds
\* for every list of entries and appends one SignatureErrorEvent per entry, in
\* order.  Neither touches the program state or a balance.
C11_RespondersUnconditional ==
    [][/\ ix'.name = "respond_bidirectional" =>
             \A c \in RespondCalls.respond_bidirectional :
                IsRespondBidirectional(c) =>
                   /\ ix'.err = "Ok"
                   /\ Appended(<<[kind |-> "RespondBidirectionalEvent",
                                  request_id |-> c[2], responder |-> c[1],
                                  serialized_output |-> c[3], signature |-> c[4]]>>)
                   /\ UNCHANGED <<program_state, lamports>>
       /\ ix'.name = "respond_error" =>
             \A c \in RespondCalls.respond_error :
                IsRespondError(c) =>
                   /\ ix'.err = "Ok"
                   /\ Appended([i \in 1..Len(c[2]) |->
                          [kind |-> "SignatureErrorEvent",
                           request_id |-> c[2][i].request_id, responder |-> c[1],
                           error |-> c[2][i].error_message]])
                   /\ UNCHANGED <<program_state, lamports>>]_vars

\* Before any program state exists and with no request in the stream, a result
\* with an empty output and two different error entries have been recorded.
C11_Witness ==
    /\ ~program_state.initialized
    /\ Len(events) = 2
    /\ \A i \in 1..Len(events) : events[i].kind = "SignatureErrorEvent"
    /\ events[1].request_id # events[2].request_id
    /\ ix = Outcome("respond_error", "Ok", 0)

\* The same with a result record: an empty output for an identifier nobody
\* requested.
C11_WitnessResult ==
    /\ ~program_state.initialized
    /\ Len(events) = 1
    /\ Last.kind = "RespondBidirectionalEvent"
    /\ Last.serialized_output = <<>>
    /\ ix = Outcome("respond_bidirectional", "Ok", 0)
\* The parties that may call a responding instruction: the signers of the
\* model (the admin and the requesters among them) and a party that does
\* nothing else.
Callers == Signers \cup {"carol"}

\* Records with the responder field blanked.
Anonymous(records) ==
    [i \in 1..Len(records) |-> [records[i] EXCEPT !.responder = "anyone"]]

\* What the next instruction, whichever it is, reports and appends.
Yields(err, records) ==
    /\ ix'.err = err
    /\ Len(events') = Len(events) + Len(records)
    /\ SubSeq(events', 1, Len(events)) = events
    /\ Anonymous(SubSeq(events', Len(events) + 1, Len(events'))) = records
    /\ UNCHANGED <<program_state, lamports>>

\* The outcomes to tell callers apart by: success or the length error, with
\* no record or with the records the arguments describe.
CallerOutcomes(records) ==
    {"Ok", "InvalidInputLength"} \X {<<>>, records}

RespondArguments ==
    {<<>>, <<"id1">>, <<"id1", "id2">>} \X {<<>>, <<"sigA">>, <<"sigB", "sigA">>}

RespondedAs(c) ==
    IF Len(c[1]) # Len(c[2]) THEN <<>>
    ELSE [i \in 1..Len(c[1]) |->
            [kind |-> "SignatureRespondedEvent", request_id |-> c[1][i],
             responder |-> "anyone", signature |-> c[2][i]]]

ErrorArguments ==
    {<<>>, <<[request_id |-> "id1", error_message |-> "failed"]>>,
     <<[request_id |-> "id2", error_message |-> "timeout"],
       [request_id |-> "id1", error_message |-> "failed"]>>}

ErrorsAs(errors) ==
    [i \in 1..Len(errors) |->
        [kind |-> "SignatureErrorEvent", request_id |-> errors[i].request_id,
         responder |-> "anyone", error |-> errors[i].error_message]]

ResultArguments == RequestIds \X Outputs \X Signatures

ResultAs(c) ==
    <<[kind |-> "RespondBidirectionalEvent", request_id |-> c[1],
       responder |-> "anyone", serialized_output |-> c[2], signature |-> c[3]]>>

\* C12: from any state, respond, respond_error and respond_bidirectional with
\* given arguments have the same outcome whoever calls: the admin can get an
\* outcome (success or an error, with the records appended, the responder
\* field left aside) exactly if a requester or an unrelated party can.
C12_AnyCaller ==
    \A b \in Callers :
        /\ \A c \in RespondArguments : \A o \in CallerOutcomes(RespondedAs(c)) :
              (ENABLED (respond(program_state.admin, c[1], c[2]) /\ Yields(o[1], o[2])))
                 <=> (ENABLED (respond(b, c[1], c[2]) /\ Yields(o[1], o[2])))
        /\ \A c \in ErrorArguments : \A o \in CallerOutcomes(ErrorsAs(c)) :
              (ENABLED (respond_error(program_state.admin, c) /\ Yields(o[1], o[2])))
                 <=> (ENABLED (respond_error(b, c) /\ Yields(o[1], o[2])))
        /\ \A c \in ResultArguments : \A o \in CallerOutcomes(ResultAs(c)) :
              (ENABLED (respond_bidirectional(program_state.admin, c[1], c[2], c[3])
                           /\ Yields(o[1], o[2])))
                 <=> (ENABLED (respond_bidirectional(b, c[1], c[2], c[3])
                                  /\ Yields(o[1], o[2])))

\* A requester that is not the admin has had a response recorded.
C12_Witness ==
    /\ program_state.initialized
    /\ ix = Outcome("respond", "Ok", 0)
    /\ Len(events) = 2
    /\ events[1].kind = "SignatureRequestedEvent"
    /\ Last.kind = "SignatureRespondedEvent"
    /\ Last.responder = events[1].sender
    /\ Last.responder # program_state.admin

\* ======================================================= outcome parsers
\* The parsers a consumer of RespondBidirectionalEvent is given: is_error
\* (lib.rs), is_error_response (evm.rs) and parseResponse (TypeScript, lib.rs).
MaxOutputLen == 5      \* longest serialized_output handed to a parser

\* const MAGIC_ERROR_PREFIX: [u8; 4] = [0xde, 0xad, 0xbe, 0xef];
MAGIC_ERROR_PREFIX == <<222, 173, 190, 239>>

\* The bytes outputs are made of: those of the prefix and one other.
OutputBytes == {222, 173, 190, 239, 1}

ParsedOutputs == UNION {[1..n -> OutputBytes] : n \in 0..MaxOutputLen}

Min(a, b) == IF a <= b THEN a ELSE b

\* <[u8]>::starts_with: the slice is at least as long as the needle and its
\* first bytes are the needle's.
StartsWith(bytes, needle) ==
    /\ Len(bytes) >= Len(needle)
    /\ SubSeq(bytes, 1, Len(needle)) = needle

\* Uint8Array.prototype.slice(0, end): the first `end` bytes, or all of them
\* when there are fewer.
Slice(bytes, end) == SubSeq(bytes, 1, Min(end, Len(bytes)))

\* Mutant: any output that leads with 0xde is taken for an error.
IsErrorByFirstByte(output) == Len(output) >= 1 /\ output[1] = MAGIC_ERROR_PREFIX[1]

\* fn is_error(output: &[u8]) -> bool { output.starts_with(&[0xde, 0xad, 0xbe, 0xef]) }
IsError(output) == StartsWith(output, MAGIC_ERROR_PREFIX)

\* output.len() >= 4 && output[..4] == ERROR_PREFIX
IsErrorResponse(output) ==
    Len(output) >= 4 /\ SubSeq(output, 1, 4) = MAGIC_ERROR_PREFIX

\* serializedOutput.slice(0, 4).every((b, i) => b === MAGIC_ERROR_PREFIX[i]):
\* `every` looks at the bytes the slice has, however few.
ParseResponseReverted(serializedOutput) ==
    LET head == Slice(serializedOutput, 4)
    IN  \A i \in 1..Len(head) : head[i] = MAGIC_ERROR_PREFIX[i]

Flag(b) == IF b THEN 1 ELSE 0

\* The record a consumer has polled: the last of the stream.
PolledOutput == events[Len(events)].serialized_output

is_error ==
    /\ ix' = Outcome("is_error", "Ok", Flag(IsError(PolledOutput)))
    /\ UNCHANGED <<program_state, lamports, events, user_balance>>

is_error_response ==
    /\ ix' = Outcome("is_error_response", "Ok", Flag(IsErrorResponse(PolledOutput)))
    /\ UNCHANGED <<program_state, lamports, events, user_balance>>

\* parseResponse returns { success: false, .. } or { success: true, .. }: the
\* outcome carries the success flag.
parseResponse ==
    /\ ix' = Outcome("parseResponse", "Ok", Flag(~ParseResponseReverted(PolledOutput)))
    /\ UNCHANGED <<program_state, lamports, events, user_balance>>

\* A stream holding one result record, as respond_bidirectional leaves it for
\* any output.
InitParse ==
    /\ program_state = NoProgramState
    /\ lamports = [k \in Accounts |->
                      IF k \in Signers THEN InitLamports
                      ELSE IF k = DefaultPubkey THEN 1 ELSE 0]
    /\ \E output \in ParsedOutputs :
          events = <<RespondBidirectionalEvent("id1", "bob", output, "sigA")>>
    /\ ix = Outcome("none", "Ok", 0)
    /\ user_balance = 0

NextParse == is_error \/ is_error_response \/ parseResponse

SpecParse == InitParse /\ [][NextParse]_vars

\* C16: an output of four bytes or more is classified as a failed remote
\* action exactly if its first four bytes are DE AD BE EF, whatever follows,
\* by each of the parsers.
C16_PrefixDecides ==
    (Len(PolledOutput) >= 4 /\ ix.name \in {"is_error", "is_error_response", "parseResponse"}) =>
        LET failed == IF ix.name = "parseResponse" THEN ix.ret = 0 ELSE ix.ret = 1
        IN  failed <=> (/\ PolledOutput[1] = 222 /\ PolledOutput[2] = 173
                        /\ PolledOutput[3] = 190 /\ PolledOutput[4] = 239)

\* The prefix followed by one more byte has been classified as an error.
C16_Witness ==
    /\ PolledOutput = <<222, 173, 190, 239, 1>>
    /\ ix = Outcome("is_error", "Ok", 1)

\* C17 as stated: every parser classifies every output shorter than four
\* bytes as success, the empty output and the proper prefixes of DE AD BE EF
\* included.
C17_ShortIsSuccess ==
    (Len(PolledOutput) < 4 /\ ix.name \in {"is_error", "is_error_response", "parseResponse"}) =>
        IF ix.name = "parseResponse" THEN ix.ret = 1 ELSE ix.ret = 0

\* C17 for the two Rust parsers alone, which do classify every short output
\* as success.
C17_ShortIsSuccessRust ==
    (Len(PolledOutput) < 4 /\ ix.name \in {"is_error", "is_error_response"}) => ix.ret = 0

\* ================================================== keys and signatures
\* The signing curve in miniature: a group of prime order GroupOrder whose
\* points are written by their discrete logarithm to the base G (so k stands
\* for k*G, 1 for G and 0 for the point at infinity).  A point and its
\* negative share their x coordinate and differ in the parity of y.
GroupOrder == 11

Scalars == 1..(GroupOrder - 1)

Inverses == [a \in Scalars |-> CHOOSE b \in Scalars : (a * b) % GroupOrder = 1]

Inverse(a) == Inverses[a]

XCoordinate(point) == Min(point, GroupOrder - point)

YParity(point) == IF point = XCoordinate(point) THEN 0 ELSE 1

\* The key versions, requesters and paths keys are derived for.
KeyVersions == {0}
DerivationPaths == <<"eth", "", RESPONSE_DERIVATION_PATH>>
Requesters == <<"alice", "bob">>

IndexIn(list, x) == CHOOSE i \in 1..Len(list) : list[i] = x

\* Mutant: the path plays no part in the derivation.
DeriveEpsilonWithoutPath(key_version, sender, path) ==
    1 + Len(DerivationPaths) * (IndexIn(Requesters, sender) - 1)

\* epsilon = derive_epsilon(key_version, sender, path): a hash of the three to
\* a scalar, modelled as one-to-one on the values above.
derive_epsilon(key_version, sender, path) ==
    IndexIn(DerivationPaths, path)
        + Len(DerivationPaths) * (IndexIn(Requesters, sender) - 1)
        + Len(DerivationPaths) * Len(Requesters) * key_version

\* The root key of the MPC network.
MpcRootPubkey == 1

\* derived_pubkey = root_pubkey + epsilon * G
derive_key(mpc_root_pubkey, epsilon) == (mpc_root_pubkey + epsilon) % GroupOrder

\* The key that signs what a requester asks to have signed under a path.
UserPubkey(key_version, sender, path) ==
    derive_key(MpcRootPubkey, derive_epsilon(key_version, sender, path))

\* response_pubkey: the key that signs results for a requester.
ResponsePubkey(key_version, sender) ==
    derive_key(MpcRootPubkey,
               derive_epsilon(key_version, sender, RESPONSE_DERIVATION_PATH))

\* keccak256(pubkey)[12..32]: one address per key.
Address(pubkey) == <<"address", pubkey>>

\* The outputs a consumer is handed: a plain transfer's empty output, the
\* Borsh booleans and a failed transaction's.
ConsumerOutputs == <<<<>>, <<1>>, <<0>>, <<222, 173, 190, 239, 1>>>>

ConsumerRequestIds == <<"id1", "id2">>

\* fn hash_response: keccak256(request_id || output).  The hash is modelled as
\* one-to-one: the bytes hashed stand for the digest.
hash_response(request_id, output) == <<request_id>> \o output

\* The digest read as a scalar, one-to-one on the messages above.
HashScalar(message_hash) ==
    (Len(ConsumerOutputs) * (IndexIn(ConsumerRequestIds, message_hash[1]) - 1)
        + IndexIn(ConsumerOutputs, Tail(message_hash)) - 1) % GroupOrder

\* An ECDSA signature by the holder of `key` over a digest with the nonce k:
\* R = k*G, r = R.x, s = (z + r*key)/k, recovery_id telling R from -R.
EcdsaSign(key, message_hash, k) ==
    [big_r |-> [x |-> XCoordinate(k), y |-> YParity(k)],
     s |-> (Inverse(k) * (HashScalar(message_hash) + XCoordinate(k) * key)) % GroupOrder,
     recovery_id |-> YParity(k)]

\* Every value of the Signature type in the miniature, recovery ids past the
\* valid ones included.
ConsumerSignatures ==
    [big_r : [x : 0..(GroupOrder \div 2), y : {0, 1}],
     s : 0..(GroupOrder - 1),
     recovery_id : 0..4]

\* secp256k1_recover(hash, recovery_id, signature): the key Q with
\* s*R = z*G + r*Q for the point R the recovery id selects, or an error.
Secp256k1Recover(message_hash, recovery_id, r, s) ==
    IF recovery_id > 3
    THEN [error |-> "InvalidRecoveryId", pubkey |-> 0]
    ELSE IF r = 0 \/ s = 0 \/ recovery_id > 1
    THEN [error |-> "Secp256k1RecoverError::InvalidSignature", pubkey |-> 0]
    ELSE LET big_r == IF recovery_id = 0 THEN r ELSE GroupOrder - r
             q == (Inverse(r) * (s * big_r + GroupOrder * GroupOrder
                                   - HashScalar(message_hash))) % GroupOrder
         IN  IF q = 0
             THEN [error |-> "Secp256k1RecoverError::InvalidSignature", pubkey |-> 0]
             ELSE [error |-> "Ok", pubkey |-> q]

\* ------------------------------------------- the consumer of a response
MaxClaims == 2         \* claims credited before the ledger stops counting

\* ctx.accounts.config.mpc_address: the address the consumer trusts, that of
\* the response key of the requester bob.
ConfigMpcAddress == Address(ResponsePubkey(0, "bob"))

\* pending.amount
PendingAmount == 1

\* Mutant: any signature a key can be recovered from is accepted.
VerifySignatureOfAnyKey(message_hash, signature, expected_address) ==
    Secp256k1Recover(message_hash, signature.recovery_id,
                     signature.big_r.x, signature.s).error

\* fn verify_signature(message_hash, signature, expected_address) -> Result<()>
VerifySignature(message_hash, signature, expected_address) ==
    LET recovered == Secp256k1Recover(message_hash, signature.recovery_id,
                                      signature.big_r.x, signature.s)
    IN  IF recovered.error # "Ok" THEN recovered.error
        ELSE IF Address(recovered.pubkey) # expected_address THEN "InvalidSignature"
        ELSE "Ok"

verify_signature(message_hash, signature, expected_address) ==
    /\ ix' = Outcome("verify_signature",
                     VerifySignature(message_hash, signature, expected_address), 0)
    /\ UNCHANGED <<program_state, lamports, events, user_balance>>

\* <bool as BorshDeserialize>::try_from_slice: one byte, 0 or 1.
BorshBool(bytes) ==
    IF bytes = <<1>> THEN "true" ELSE IF bytes = <<0>> THEN "false" ELSE "error"

\* Mutant: the error prefix is looked for before the signature is verified.
ClaimErrorPrefixFirst(request_id, serialized_output, signature) ==
    IF IsErrorResponse(serialized_output)
    THEN "EvmTransactionFailed"
    ELSE VerifySignature(hash_response(request_id, serialized_output), signature,
                         ConfigMpcAddress)

\* Steps 1 to 3 of claim_deposit: the error it returns, or "Ok".
ClaimChecks(request_id, serialized_output, signature) ==
    LET verified == VerifySignature(hash_response(request_id, serialized_output),
                                    signature, ConfigMpcAddress)
    IN  IF verified # "Ok" THEN verified
        ELSE IF Len(serialized_output) >= 4
                /\ SubSeq(serialized_output, 1, 4) = MAGIC_ERROR_PREFIX
        THEN "EvmTransactionFailed"
        ELSE IF BorshBool(serialized_output) = "error" THEN "BorshIoError"
        ELSE IF BorshBool(serialized_output) = "false" THEN "TransferReturnedFalse"
        ELSE "Ok"

claim_deposit(request_id, serialized_output, signature) ==
    LET checked == ClaimChecks(request_id, serialized_output, signature)
    IN  IF checked # "Ok"
        THEN Rejected("claim_deposit", checked)
        ELSE /\ user_balance < MaxClaims * PendingAmount
             /\ user_balance' = user_balance + PendingAmount
             /\ ix' = Outcome("claim_deposit", "Ok", 0)
             /\ UNCHANGED <<program_state, lamports, events>>

\* The addresses a verifier may expect: one per requester and path.
ExpectedAddresses ==
    {Address(UserPubkey(v, Requesters[i], DerivationPaths[j])) :
        v \in KeyVersions, i \in 1..Len(Requesters), j \in 1..Len(DerivationPaths)}

\* The record a consumer has polled.
Polled == events[Len(events)]

\* A stream holding one result record with any identifier, output and
\* signature: respond_bidirectional records whatever it is given.
InitConsumer ==
    /\ program_state = NoProgramState
    /\ lamports = [k \in Accounts |->
                      IF k \in Signers THEN InitLamports
                      ELSE IF k = DefaultPubkey THEN 1 ELSE 0]
    /\ \E i \in 1..Len(ConsumerRequestIds), j \in 1..Len(ConsumerOutputs),
          signature \in ConsumerSignatures :
          events = <<RespondBidirectionalEvent(ConsumerRequestIds[i], "carol",
                                               ConsumerOutputs[j], signature)>>
    /\ ix = Outcome("none", "Ok", 0)
    /\ user_balance = 0

NextConsumer ==
    \/ \E expected_address \in ExpectedAddresses :
          verify_signature(hash_response(Polled.request_id, Polled.serialized_output),
                           Polled.signature, expected_address)
    \/ claim_deposit(Polled.request_id, Polled.serialized_output, Polled.signature)

SpecConsumer == InitConsumer /\ [][NextConsumer]_vars

\* The digests of the records a consumer is handed.
ConsumerHashes ==
    {hash_response(ConsumerRequestIds[i], ConsumerOutputs[j]) :
        i \in 1..Len(ConsumerRequestIds), j \in 1..Len(ConsumerOutputs)}

\* The signatures (r, s, recovery_id) each key can make over each digest, one
\* per nonce that gives a non-zero s.
SignaturesBy ==
    [key \in Scalars |-> [message_hash \in ConsumerHashes |->
        {<<made.big_r.x, made.s, made.recovery_id>> :
            made \in {m \in {EcdsaSign(key, message_hash, k) : k \in Scalars} : m.s # 0}}]]

\* Whether `signature` is an ECDSA signature by the holder of `key` over the
\* digest, for some nonce (the y coordinate of R, which no verifier reads,
\* left aside).
SignedBy(key, message_hash, signature) ==
    <<signature.big_r.x, signature.s, signature.recovery_id>>
        \in SignaturesBy[key][message_hash]

PolledHash == hash_response(Polled.request_id, Polled.serialized_output)

\* Whether the step verifies the polled record against `expected_address`.
IsVerifySignature(expected_address) ==
    /\ ix'.name = "verify_signature"
    /\ ix'.err = VerifySignature(PolledHash, Polled.signature, expected_address)
    /\ verify_signature(PolledHash, Polled.signature, expected_address)

IsClaimDeposit ==
    /\ ix'.name = "claim_deposit"
    /\ claim_deposit(Polled.request_id, Polled.serialized_output, Polled.signature)

\* C13 as stated: the record is accepted exactly if its signature is one by
\* the response key over hash(request_id || serialized_output), and every
\* other record is rejected with InvalidSignature (the recovery's error of
\* that name counted as such).
C13_InvalidSignatureAlways ==
    [][IsVerifySignature(ConfigMpcAddress) =>
          /\ ix'.err = "Ok" <=> SignedBy(ResponsePubkey(0, "bob"), PolledHash, Polled.signature)
          /\ ix'.err # "Ok" =>
                ix'.err \in {"InvalidSignature", "Secp256k1RecoverError::InvalidSignature"}]_vars

\* C13: the record is accepted exactly if its signature is one by the
\* response key of the requester over hash(request_id || serialized_output).
\* Every other record is rejected and nothing changes: with InvalidSignature
\* when the signature is one by another key over this digest (a signature
\* over another request_id or output, by another key, or with the recovery id
\* of the opposite point), and with the error of secp256k1_recover when the
\* recovery id is past 3 or no key is recovered.
C13_AcceptsResponseKeyOnly ==
    [][IsVerifySignature(ConfigMpcAddress) =>
          /\ ix'.err = "Ok" <=> SignedBy(ResponsePubkey(0, "bob"), PolledHash, Polled.signature)
          /\ ix'.err # "Ok" =>
                ix'.err = IF Polled.signature.recovery_id > 3
                          THEN "InvalidRecoveryId"
                          ELSE IF \E key \in Scalars :
                                     SignedBy(key, PolledHash, Polled.signature)
                          THEN "InvalidSignature"
                          ELSE "Secp256k1RecoverError::InvalidSignature"
          /\ UNCHANGED <<program_state, lamports, events, user_balance>>]_vars

\* A record signed by the response key has been accepted.
C13_Witness ==
    /\ ix = Outcome("verify_signature", "Ok", 0)
    /\ SignedBy(ResponsePubkey(0, "bob"), PolledHash, Polled.signature)
    /\ Polled.serialized_output # <<>>

\* C14: for one root key, requester and key version the keys derived for two
\* different paths differ, and a signature by the key of path P verifies
\* against the address of the key of path P' exactly if P = P'; otherwise it
\* is rejected with InvalidSignature.
C14_PathsSeparate ==
    [][ix'.name = "verify_signature" =>
          \A v \in KeyVersions, r \in 1..Len(Requesters),
             p \in 1..Len(DerivationPaths), q \in 1..Len(DerivationPaths) :
             LET signing == UserPubkey(v, Requesters[r], DerivationPaths[p])
                 expected == UserPubkey(v, Requesters[r], DerivationPaths[q])
             IN  /\ p # q => signing # expected
                 /\ (/\ SignedBy(signing, PolledHash, Polled.signature)
                     /\ IsVerifySignature(Address(expected))) =>
                       ix'.err = IF p = q THEN "Ok" ELSE "InvalidSignature"]_vars

\* A signature by the key of bob's path "eth" has been refused by a verifier
\* expecting another key.
C14_Witness ==
    /\ ix = Outcome("verify_signature", "InvalidSignature", 0)
    /\ SignedBy(UserPubkey(0, "bob", "eth"), PolledHash, Polled.signature)

IsRequestRecord(record) ==
    record.kind \in {"SignatureRequestedEvent", "SignBidirectionalEvent"}

\* C15: for every request record in the stream, the key that signs for the
\* request's path is not the response key of the same requester and key
\* version.
C15_SigningKeyIsNotResponseKey ==
    \A i \in 1..Len(events) :
        IsRequestRecord(events[i]) =>
            UserPubkey(events[i].key_version, events[i].sender, events[i].path)
                # ResponsePubkey(events[i].key_version, events[i].sender)
\* ------------------------------------------------- request identifiers
MaxFieldLen == 1       \* longest variable-length field of a request

\* The byte strings up to MaxFieldLen over an alphabet.
ByteStrings(alphabet) == UNION {[1..n -> alphabet] : n \in 0..MaxFieldLen}

\* sender.to_string(): the Base58 text of a public key, one text per key.
Base58(pubkey) == IF pubkey = "alice" THEN <<65>> ELSE <<66>>

\* A u32 in packed encoding: four bytes, most significant first.
U32Packed(n) ==
    <<(n \div 16777216) % 256, (n \div 65536) % 256, (n \div 256) % 256, n % 256>>

\* (sender.to_string(), transaction_data, caip2_id, key_version, path, algo,
\* dest, params).abi_encode_packed(): the fields one after the other, nothing
\* between them.
abi_encode_packed(sender, transaction_data, caip2_id, key_version, path, algo, dest, params) ==
    sender \o transaction_data \o caip2_id \o U32Packed(key_version)
        \o path \o algo \o dest \o params

\* keccak::hash(&encoded), modelled as one-to-one: the bytes hashed stand for
\* the digest.
GenerateRequestId(request) ==
    abi_encode_packed(Base58(request.sender), request.transaction_data,
                      request.caip2_id, request.key_version, request.path,
                      request.algo, request.dest, request.params)

\* The requests an identifier is generated for.
RequestFields ==
    [sender : Signers,
     transaction_data : ByteStrings({97, 98}),
     caip2_id : ByteStrings({97}),
     key_version : {0, 1},
     path : ByteStrings({97, 98}),
     algo : ByteStrings({97}),
     dest : ByteStrings({97}),
     params : ByteStrings({97})]

generate_request_id(request) ==
    /\ ix' = Outcome("generate_request_id", "Ok", GenerateRequestId(request))
    /\ UNCHANGED <<program_state, lamports, events, user_balance>>

\* One request waiting for its identifier.
InitRequestId ==
    /\ program_state = NoProgramState
    /\ lamports = [k \in Accounts |->
                      IF k \in Signers THEN InitLamports
                      ELSE IF k = DefaultPubkey THEN 1 ELSE 0]
    /\ \E request \in RequestFields : events = <<request>>
    /\ ix = Outcome("none", "Ok", 0)
    /\ user_balance = 0

NextRequestId == generate_request_id(events[1])

SpecRequestId == InitRequestId /\ [][NextRequestId]_vars

\* The fields of a request.
FieldNames ==
    {"sender", "transaction_data", "caip2_id", "key_version", "path", "algo",
     "dest", "params"}

\* The fields two requests differ in.
DifferingFields(a, b) == {f \in FieldNames : a[f] # b[f]}

C19_OneFieldChangesId ==
    ix.name = "generate_request_id" =>
        /\ ix.ret = GenerateRequestId(events[1])
        /\ \A other \in RequestFields :
              Cardinality(DifferingFields(events[1], other)) = 1 =>
                  GenerateRequestId(other) # ix.ret
\* The UTF-8 bytes of the texts requests are made of.
Utf8(text) ==
    CASE text = "" -> << >>
      [] text = "eth" -> <<101, 116, 104>>
      [] text = "secp256k1" -> <<115, 101, 99, 112, 50, 53, 54, 107, 49>>
      [] text = "ethereum" -> <<101, 116, 104, 101, 114, 101, 117, 109>>
      [] text = "{}" -> <<123, 125>>
      [] text = "hashA" -> <<104, 97, 115, 104, 65>>
      [] text = "eip155:1" -> <<101, 105, 112, 49, 53, 53, 58, 49>>
      [] text = "solana:localnet" -> <<115, 111, 108, 97, 110, 97, 58, 108, 111, 99, 97, 108, 110, 101, 116>>
      [] text = "solana response key" -> <<115, 111, 108, 97, 110, 97, 32, 114, 101, 115, 112, 111, 110, 115, 101, 32, 107, 101, 121>>

\* Mutant: the identifier of a bidirectional request also covers the schema
\* its output is read with.
RequestIdOfWithSchema(record) ==
    IF record.kind = "SignatureRequestedEvent"
    THEN abi_encode_packed(Base58(record.sender), Utf8(record.payload),
                           Utf8(record.chain_id), record.key_version,
                           Utf8(record.path), Utf8(record.algo),
                           Utf8(record.dest), Utf8(record.params))
    ELSE abi_encode_packed(Base58(record.sender), record.serialized_transaction,
                           Utf8(record.caip2_id), record.key_version,
                           Utf8(record.path), Utf8(record.algo),
                           Utf8(record.dest), Utf8(record.params))
             \o record.output_deserialization_schema

\* The identifier of a request record: generate_request_id of its fields, the
\* payload of a sign request standing where the serialized transaction of a
\* sign_bidirectional request stands, and its chain_id where the caip2_id.
RequestIdOf(record) ==
    IF record.kind = "SignatureRequestedEvent"
    THEN abi_encode_packed(Base58(record.sender), Utf8(record.payload),
                           Utf8(record.chain_id), record.key_version,
                           Utf8(record.path), Utf8(record.algo),
                           Utf8(record.dest), Utf8(record.params))
    ELSE abi_encode_packed(Base58(record.sender), record.serialized_transaction,
                           Utf8(record.caip2_id), record.key_version,
                           Utf8(record.path), Utf8(record.algo),
                           Utf8(record.dest), Utf8(record.params))

\* C20: no two request records of the stream have the same request_id.
C20_RequestIdsUnique ==
    \A i \in 1..Len(events), j \in 1..Len(events) :
        (i < j /\ IsRequestRecord(events[i]) /\ IsRequestRecord(events[j])) =>
            RequestIdOf(events[i]) # RequestIdOf(events[j])
\* ------------------------------------------------- the request lifecycle
\* The identifiers of the two requests of the flow: alice's sign request and
\* bob's sign_bidirectional request.
IdSign ==
    RequestIdOf(SignatureRequestedEvent("alice", ArgsA, 1, "solana:localnet", NoneKey))

IdBidirectional ==
    RequestIdOf(SignBidirectionalEvent("bob", BidirectionalArgs(SomeTx, DefaultPubkey), 1))

FlowIds == {IdSign, IdBidirectional}

\* One request of each kind and the responders' instructions for the
\* identifiers of the two.
FlowCalls ==
    [initialize |-> {<<"alice", 1, "solana:localnet">>},
     update_deposit |-> {<<"alice", 0>>},
     withdraw_funds |-> {<<"alice", "bob", 1>>},
     sign |-> {<<"alice", NoneKey, ArgsA>>},
     sign_bidirectional |-> {<<"bob", NoneKey, BidirectionalArgs(SomeTx, DefaultPubkey)>>},
     respond |-> {"bob"} \X {<<id>> : id \in FlowIds} \X {<<"sigA">>},
     respond_error |-> {"bob"} \X
         {<<[request_id |-> id, error_message |-> "failed"]>> : id \in FlowIds},
     respond_bidirectional |-> {"bob"} \X FlowIds \X Outputs \X {"sigA"}]

NextFlow == NextOn(FlowCalls)

SpecFlow == Init /\ [][NextFlow]_vars

\* Whether a request record with the identifier stands before position j.
RequestedBefore(j, id) ==
    \E i \in 1..(j - 1) :
        IsRequestRecord(events[i]) /\ RequestIdOf(events[i]) = id

\* Whether a SignatureRespondedEvent with the identifier stands before j.
SignedBefore(j, id) ==
    \E i \in 1..(j - 1) :
        events[i].kind = "SignatureRespondedEvent" /\ events[i].request_id = id

\* C21 as stated: every SignatureRespondedEvent stands after a request record
\* with its identifier, and every RespondBidirectionalEvent after a
\* SignatureRespondedEvent with its identifier.
C21_RequestedSignedObserved ==
    \A j \in 1..Len(events) :
        /\ events[j].kind = "SignatureRespondedEvent" =>
              RequestedBefore(j, events[j].request_id)
        /\ events[j].kind = "RespondBidirectionalEvent" =>
              SignedBefore(j, events[j].request_id)

\* C21: the program keeps no order between the records of an identifier.  In
\* every state with room in the stream, respond with an identifier succeeds
\* and appends its SignatureRespondedEvent whether or not a request record
\* with that identifier stands in the stream, and respond_bidirectional
\* succeeds and appends its RespondBidirectionalEvent whether or not a
\* SignatureRespondedEvent with that identifier does.
C21_NoOrderKept ==
    \A id \in FlowIds :
        Emits(1) =>
            /\ ENABLED (/\ respond("bob", <<id>>, <<"sigA">>)
                        /\ ix'.err = "Ok"
                        /\ events' = Append(events,
                               SignatureRespondedEvent(id, "bob", "sigA")))
            /\ ENABLED (/\ respond_bidirectional("bob", id, <<>>, "sigA")
                        /\ ix'.err = "Ok"
                        /\ events' = Append(events,
                               RespondBidirectionalEvent(id, "bob", <<>>, "sigA")))

\* A result has been recorded for an identifier nothing was requested or
\* signed for.
C21_Witness ==
    /\ ix = Outcome("respond_bidirectional", "Ok", 0)
    /\ Len(events) = 1
    /\ events[1].kind = "RespondBidirectionalEvent"
    /\ events[1].request_id = IdBidirectional
\* C22 as stated: no RespondBidirectionalEvent carries the identifier of a
\* request record made by sign that stands before it.
C22_DirectFlowEndsAtSigned ==
    \A i \in 1..Len(events), j \in 1..Len(events) :
        (/\ i < j
         /\ events[i].kind = "SignatureRequestedEvent"
         /\ events[j].kind = "RespondBidirectionalEvent") =>
            events[j].request_id # RequestIdOf(events[i])

\* C22: respond_bidirectional does not look at how an identifier was
\* requested.  For every request record made by sign that stands in the
\* stream, and every output, respond_bidirectional with the identifier of
\* that record succeeds and appends its RespondBidirectionalEvent while the
\* stream has room.
C22_ResultForAnyRequest ==
    \A i \in 1..Len(events), output \in Outputs :
        (events[i].kind = "SignatureRequestedEvent" /\ Emits(1)) =>
            ENABLED (/\ respond_bidirectional("bob", RequestIdOf(events[i]), output, "sigA")
                     /\ ix'.err = "Ok"
                     /\ events' = Append(events,
                            RespondBidirectionalEvent(RequestIdOf(events[i]), "bob",
                                                      output, "sigA")))

\* A failed remote execution has been recorded for the identifier of a request
\* made by sign.
C22_Witness ==
    /\ ix = Outcome("respond_bidirectional", "Ok", 0)
    /\ Len(events) = 2
    /\ events[1].kind = "SignatureRequestedEvent"
    /\ events[2].kind = "RespondBidirectionalEvent"
    /\ events[2].request_id = RequestIdOf(events[1])
    /\ IsError(events[2].serialized_output)
\* The sign_bidirectional calls with an empty serialized_transaction.
EmptyTransactionCalls ==
    {c \in AllCalls.sign_bidirectional : c[3].serialized_transaction = <<>>}

IsSignBidirectional(c) ==
    ix'.name = "sign_bidirectional" /\ sign_bidirectional(c[1], c[2], c[3])

\* C23 as stated: on the initialized program, sign_bidirectional with an empty
\* serialized_transaction fails with InvalidTransaction whatever the payer
\* holds, and changes nothing.
C23_InvalidTransactionAlways ==
    [][ix'.name = "sign_bidirectional" =>
          \A c \in EmptyTransactionCalls :
              (program_state.initialized /\ IsSignBidirectional(c)) =>
                  /\ ix'.err = "InvalidTransaction"
                  /\ UNCHANGED State]_vars

\* C23: sign_bidirectional with an empty serialized_transaction always fails,
\* collects no deposit and emits no record.  The balance of the payer is
\* tested first: the error is InsufficientDeposit when the payer holds less
\* than the deposit, InvalidTransaction when it holds at least the deposit,
\* and the account error when the program state does not exist.
C23_EmptyTransactionFails ==
    [][ix'.name = "sign_bidirectional" =>
          \A c \in EmptyTransactionCalls :
              IsSignBidirectional(c) =>
                  /\ ix'.err =
                        IF ~program_state.initialized THEN "AccountNotInitialized"
                        ELSE IF lamports[Payer(c[1], c[2])] < Deposit
                        THEN "InsufficientDeposit"
                        ELSE "InvalidTransaction"
                  /\ UNCHANGED State]_vars

\* An empty transaction has been refused with InvalidTransaction while the
\* pool already held a deposit.
C23_Witness ==
    /\ ix = Outcome("sign_bidirectional", "InvalidTransaction", 0)
    /\ Deposit > 0
    /\ Len(events) > 0
\* What the payer of a request lost in the step.
Debited(r) == lamports[NamedPayer(r)] - lamports'[NamedPayer(r)]

\* C24: every successful sign appends exactly one record, a
\* SignatureRequestedEvent whose sender is the requester, whose payload,
\* key_version, path, algo, dest and params are the arguments, whose deposit
\* is the amount debited from the payer, whose chain_id is the one stored in
\* the program state and whose fee_payer is the fee payer account when one
\* was supplied and None otherwise.  Every successful sign_bidirectional
\* appends exactly one SignBidirectionalEvent with the requester, its
\* arguments and the amount debited.
C24_RequestRecorded ==
    [][(ix'.name \in {"sign", "sign_bidirectional"} /\ ix'.err = "Ok") =>
          \A r \in Requests :
              IsRequest(r) =>
                  LET requester == r[2][1]
                      fee_payer == r[2][2]
                      args == r[2][3]
                  IN  /\ Len(events') = Len(events) + 1
                      /\ SubSeq(events', 1, Len(events)) = events
                      /\ events'[Len(events')] =
                            IF r[1] = "sign"
                            THEN [kind |-> "SignatureRequestedEvent",
                                  sender |-> requester,
                                  payload |-> args.payload,
                                  key_version |-> args.key_version,
                                  deposit |-> Debited(r),
                                  chain_id |-> program_state.chain_id,
                                  path |-> args.path, algo |-> args.algo,
                                  dest |-> args.dest, params |-> args.params,
                                  fee_payer |-> IF fee_payer \in Signers
                                                THEN fee_payer ELSE NoneKey]
                            ELSE [kind |-> "SignBidirectionalEvent",
                                  sender |-> requester,
                                  serialized_transaction |-> args.serialized_transaction,
                                  caip2_id |-> args.caip2_id,
                                  key_version |-> args.key_version,
                                  deposit |-> Debited(r),
                                  path |-> args.path, algo |-> args.algo,
                                  dest |-> args.dest, params |-> args.params,
                                  program_id |-> args.program_id,
                                  output_deserialization_schema |->
                                      args.output_deserialization_schema,
                                  respond_serialization_schema |->
                                      args.respond_serialization_schema]]_vars

\* A request paid by a fee payer other than the requester has been recorded
\* after a request of the other kind.
C24_Witness ==
    /\ ix = Outcome("sign", "Ok", 0)
    /\ Len(events) = 2
    /\ events[1].kind = "SignBidirectionalEvent"
    /\ events[2].kind = "SignatureRequestedEvent"
    /\ events[2].sender = "alice"
    /\ events[2].fee_payer = "bob"
    /\ events[2].deposit > 0
\* Whether position j holds the last DepositUpdatedEvent of the stream.
LastDepositUpdate(j) ==
    /\ events[j].kind = "DepositUpdatedEvent"
    /\ \A k \in (j + 1)..Len(events) : events[k].kind # "DepositUpdatedEvent"

\* C25: once update_deposit(n) has succeeded, the stored deposit is n, and so
\* is what get_signature_deposit returns, until the next successful
\* update_deposit: in every state the program state exists and holds the
\* new_deposit of the last DepositUpdatedEvent of the stream.
C25_DepositIsLastUpdate ==
    \A j \in 1..Len(events) :
        LastDepositUpdate(j) =>
            /\ program_state.initialized
            /\ program_state.signature_deposit = events[j].new_deposit
            /\ ENABLED (get_signature_deposit /\ ix'.err = "Ok"
                            /\ ix'.ret = events[j].new_deposit)

\* The part of C25 about single steps: a successful update_deposit(n) by the
\* admin stores n, appends DepositUpdatedEvent(old, n) and leaves admin,
\* chain_id and every balance alone; a successful get_signature_deposit
\* returns the stored deposit and changes nothing; a successful request is
\* charged the stored deposit.
C25_UpdateDepositEffect ==
    [][/\ ix'.name = "update_deposit" =>
             \A c \in AllCalls.update_deposit :
                 (IsUpdateDeposit(c) /\ ix'.err = "Ok") =>
                     /\ c[1] = program_state.admin
                     /\ program_state' =
                            [program_state EXCEPT !.signature_deposit = c[2]]
                     /\ Appended(<<DepositUpdatedEvent(Deposit, c[2])>>)
                     /\ UNCHANGED lamports
       /\ (ix'.name = "get_signature_deposit" /\ ix'.err = "Ok") =>
             /\ ix'.ret = Deposit
             /\ UNCHANGED State
       /\ (ix'.name \in {"sign", "sign_bidirectional"} /\ ix'.err = "Ok") =>
             /\ lamports'[ProgramStateKey] = Pool + Deposit
             /\ events'[Len(events')].deposit = Deposit]_vars
\* C26: once initialize has succeeded, admin and chain_id keep their values
\* in every later state: no step from a state in which the program state
\* exists changes either.
C26_AdminImmutable ==
    [][program_state.initialized =>
          /\ program_state'.initialized
          /\ program_state'.admin = program_state.admin
          /\ program_state'.chain_id = program_state.chain_id]_vars

\* The part of C26 that holds while the program-state account holds lamports:
\* a further initialize fails, and no instruction but a withdrawal of the
\* account's whole balance changes admin or chain_id.
C26_AdminKeptWhileFunded ==
    [][program_state.initialized =>
          /\ ix'.name = "initialize" => ix'.err = "AccountAlreadyInUse"
          /\ lamports'[ProgramStateKey] > 0 =>
                /\ program_state'.initialized
                /\ program_state'.admin = program_state.admin
                /\ program_state'.chain_id = program_state.chain_id]_vars
\* C27: while the program state does not exist, initialize signed by any
\* account that can pay for the new account succeeds, creates the state with
\* that signer as admin and the given signature_deposit and chain_id, leaves
\* the record stream as it is and takes only the cost of the account from the
\* signer.
C27_FirstCallerBecomesAdmin ==
    [][ix'.name = "initialize" =>
          \A c \in AllCalls.initialize :
              (/\ ~program_state.initialized
               /\ lamports[c[1]] >= RentExempt
               /\ IsInitialize(c)) =>
                  /\ ix'.err = "Ok"
                  /\ program_state' = [initialized |-> TRUE, admin |-> c[1],
                                       signature_deposit |-> c[2], chain_id |-> c[3]]
                  /\ events' = events
                  /\ lamports'[ProgramStateKey] = Pool + RentExempt
                  /\ lamports'[c[1]] = lamports[c[1]] - RentExempt
                  /\ OnlyMoved(ProgramStateKey, c[1])]_vars

\* bob, as the first caller, has created the state and is its admin.
C27_Witness ==
    /\ ix = Outcome("initialize", "Ok", 0)
    /\ program_state.initialized
    /\ program_state.admin = "bob"
    /\ program_state.signature_deposit = InitLamports + 1
    /\ events = <<>>
C29_DuplicatesAccepted ==
    \A j \in 1..Len(events) :
        Emits(1) =>
            /\ events[j].kind = "SignatureRespondedEvent" =>
                  \A signature \in Signatures :
                      ENABLED (/\ respond("bob", <<events[j].request_id>>, <<signature>>)
                               /\ ix'.err = "Ok"
                               /\ events' = Append(events,
                                      SignatureRespondedEvent(events[j].request_id,
                                                              "bob", signature)))
            /\ events[j].kind = "RespondBidirectionalEvent" =>
                  \A output \in Outputs :
                      ENABLED (/\ respond_bidirectional("bob", events[j].request_id,
                                                        output, "sigA")
                               /\ ix'.err = "Ok"
                               /\ events' = Append(events,
                                      RespondBidirectionalEvent(events[j].request_id,
                                                                "bob", output, "sigA")))

\* Two responses with different signatures stand in the stream for one
\* identifier.
C29_Witness ==
    /\ ix = Outcome("respond", "Ok", 0)
    /\ Len(events) = 2
    /\ events[1].kind = "SignatureRespondedEvent"
    /\ events[2].kind = "SignatureRespondedEvent"
    /\ events[1].request_id = events[2].request_id
    /\ events[1].signature # events[2].signature

\* Two results, a success and a failure, stand in the stream for one
\* identifier.
C29_WitnessResult ==
    /\ ix = Outcome("respond_bidirectional", "Ok", 0)
    /\ Len(events) = 2
    /\ events[1].kind = "RespondBidirectionalEvent"
    /\ events[2].kind = "RespondBidirectionalEvent"
    /\ events[1].request_id = events[2].request_id
    /\ IsError(events[1].serialized_output) # IsError(events[2].serialized_output)
\* C30: the pool gets smaller only in a successful withdraw_funds called by
\* the admin; in every other step no signer's balance grows, so no deposit
\* goes back to its payer; and every request record stays in the stream as it
\* was emitted, whatever follows.
C30_FundsFlowOneWay ==
    [][/\ lamports'[ProgramStateKey] < Pool =>
             /\ ix' = Outcome("withdraw_funds", "Ok", 0)
             /\ \E c \in AllCalls.withdraw_funds :
                   c[1] = program_state.admin /\ IsWithdrawFunds(c)
       /\ ix'.name # "withdraw_funds" =>
             \A k \in Signers : lamports'[k] <= lamports[k]
       /\ \A i \in 1..Len(events) :
             IsRequestRecord(events[i]) =>
                 (Len(events') >= i /\ events'[i] = events[i])]_vars

\* A request that got no response still has its deposit in the pool after a
\* later instruction of the admin.
C30_Witness ==
    /\ ix = Outcome("update_deposit", "Ok", 0)
    /\ Len(events) = 2
    /\ events[1].kind = "SignatureRequestedEvent"
    /\ events[1].deposit > 0
    /\ events[2].kind = "DepositUpdatedEvent"
    /\ Pool = RentExempt + events[1].deposit
\* ------------------------------------------------- requests in sequence
\* What a request does to a ledger (program state, balances, stream): the
\* error it returns and the ledger it leaves, as sign and sign_bidirectional
\* compute them.
RequestEffect(ledger, r) ==
    LET payer == NamedPayer(r)
        deposit == ledger.program_state.signature_deposit
        rejected(error) == [ledger EXCEPT !.err = error]
    IN  IF ~ledger.program_state.initialized
        THEN rejected("AccountNotInitialized")
        ELSE IF ledger.lamports[payer] < deposit
        THEN rejected("InsufficientDeposit")
        ELSE IF r[1] = "sign_bidirectional" /\ Len(r[2][3].serialized_transaction) = 0
        THEN rejected("InvalidTransaction")
        ELSE [err |-> "Ok",
              program_state |-> ledger.program_state,
              lamports |-> SystemTransfer(ledger.lamports, payer, ProgramStateKey, deposit),
              events |-> Append(ledger.events,
                  IF r[1] = "sign"
                  THEN SignatureRequestedEvent(r[2][1], r[2][3], deposit,
                           ledger.program_state.chain_id, r[2][2])
                  ELSE SignBidirectionalEvent(r[2][1], r[2][3], deposit))]

\* The ledger of the current state.
Ledger ==
    [err |-> "Ok", program_state |-> program_state, lamports |-> lamports,
     events |-> events]

\* The step is the request r with the outcome and the ledger `after`.
RequestGives(r, after) ==
    /\ IF r[1] = "sign" THEN sign(r[2][1], r[2][2], r[2][3])
       ELSE sign_bidirectional(r[2][1], r[2][2], r[2][3])
    /\ ix' = Outcome(r[1], after.err, 0)
    /\ program_state' = after.program_state
    /\ lamports' = after.lamports
    /\ events' = after.events

\* The records a ledger holds behind those of the current state.
Added(ledger) ==
    {ledger.events[i] : i \in (Len(events) + 1)..Len(ledger.events)}

\* The pairs of requests with distinct payers.
IndependentRequests ==
    {p \in Requests \X Requests : NamedPayer(p[1]) # NamedPayer(p[2])}

\* C31: from every state, two requests with distinct payers run one after the
\* other give each request the same outcome in both orders, the same final
\* balances and program state, and the same records added; and every request
\* taken as a step has its whole effect or, rejected, none of it.
C31_RequestsCommute ==
    /\ \A r \in Requests :
          Emits(1) => ENABLED RequestGives(r, RequestEffect(Ledger, r))
    /\ \A p \in IndependentRequests :
          LET first == RequestEffect(Ledger, p[1])
              firstThenSecond == RequestEffect(first, p[2])
              second == RequestEffect(Ledger, p[2])
              secondThenFirst == RequestEffect(second, p[1])
          IN  /\ first.err = secondThenFirst.err
              /\ second.err = firstThenSecond.err
              /\ firstThenSecond.lamports = secondThenFirst.lamports
              /\ firstThenSecond.program_state = secondThenFirst.program_state
              /\ Added(firstThenSecond) = Added(secondThenFirst)
              /\ Len(firstThenSecond.events) = Len(secondThenFirst.events)

\* Two requests with distinct payers have both been charged and recorded.
C31_Witness ==
    /\ ix = Outcome("sign_bidirectional", "Ok", 0)
    /\ Len(events) = 2
    /\ events[1].kind = "SignatureRequestedEvent"
    /\ events[1].sender = "alice"
    /\ events[1].fee_payer = NoneKey
    /\ events[2].kind = "SignBidirectionalEvent"
    /\ events[2].sender = "bob"
    /\ events[1].deposit > 0
    /\ events[2].deposit = events[1].deposit
\* ------------------------------------------------------------ accounting
\* What a record says went into the pool.
DepositOf(record) == IF IsRequestRecord(record) THEN record.deposit ELSE 0

\* What a record says went out of the pool.
WithdrawnOf(record) ==
    IF record.kind = "FundsWithdrawnEvent" THEN record.amount ELSE 0

RECURSIVE Deposited(_)
\* The deposits of all request records of a stream.
Deposited(records) ==
    IF records = <<>> THEN 0
    ELSE DepositOf(Head(records)) + Deposited(Tail(records))

RECURSIVE Withdrawn(_)
\* The amounts of all FundsWithdrawnEvent records of a stream.
Withdrawn(records) ==
    IF records = <<>> THEN 0
    ELSE WithdrawnOf(Head(records)) + Withdrawn(Tail(records))

\* C32: while the program state exists, the pool holds what it held right
\* after initialize plus the deposits of all request records of the stream
\* minus the amounts of all FundsWithdrawnEvent records of the stream.
C32_PoolIsDepositsLessWithdrawals ==
    program_state.initialized =>
        Pool = RentExempt + Deposited(events) - Withdrawn(events)

\* The part of C32 about single steps: a successful request adds to the pool
\* the deposit its record names, and a successful withdraw_funds to an
\* account other than the program-state account takes from the pool the
\* amount its record names; no other instruction changes the pool of an
\* existing program state.
C32_RecordsMatchTransfers ==
    [][program_state.initialized =>
          IF ix'.err # "Ok" THEN lamports'[ProgramStateKey] = Pool
          ELSE IF ix'.name \in {"sign", "sign_bidirectional"}
          THEN lamports'[ProgramStateKey] = Pool + events'[Len(events')].deposit
          ELSE IF ix'.name = "withdraw_funds"
          THEN \/ events'[Len(events')].recipient = ProgramStateKey
               \/ lamports'[ProgramStateKey] = Pool - events'[Len(events')].amount
          ELSE lamports'[ProgramStateKey] = Pool]_vars
\* C33: a request that runs right after a successful update_deposit(n) is
\* charged n, whatever was stored (and could be read) before the update: with
\* a payer holding at least n it succeeds, n moves from the payer to the pool
\* and the record's deposit is n; with a payer holding less than n it fails
\* with InsufficientDeposit and changes nothing.  The request itself names no
\* amount.
C33_ChargedStoredDeposit ==
    [][(/\ ix = Outcome("update_deposit", "Ok", 0)
        /\ ix'.name \in {"sign", "sign_bidirectional"}) =>
          \A r \in Requests :
              (IsRequest(r) /\ WellFormed(r)) =>
                  LET n == Last.new_deposit
                  IN  IF lamports[NamedPayer(r)] >= n
                      THEN /\ ix'.err = "Ok"
                           /\ lamports'[NamedPayer(r)] = lamports[NamedPayer(r)] - n
                           /\ lamports'[ProgramStateKey] = Pool + n
                           /\ events'[Len(events')].deposit = n
                      ELSE /\ ix'.err = "InsufficientDeposit"
                           /\ UNCHANGED State]_vars

\* A requester that could read a deposit of 1 has been charged its whole
\* balance after the admin raised the deposit.
C33_Witness ==
    /\ ix = Outcome("sign", "Ok", 0)
    /\ Len(events) = 2
    /\ events[1].kind = "DepositUpdatedEvent"
    /\ events[1].old_deposit = 1
    /\ events[1].new_deposit = InitLamports
    /\ events[2].kind = "SignatureRequestedEvent"
    /\ events[2].deposit = InitLamports
    /\ events[2].fee_payer = NoneKey
    /\ lamports[events[2].sender] = 0
\* ------------------------------------------- responders and the escrow
\* What a responding call reports and records, worked out from its arguments
\* alone.
RespondOutcome(c) ==
    IF Len(c[2]) # Len(c[3])
    THEN [err |-> "InvalidInputLength", records |-> <<>>]
    ELSE [err |-> "Ok",
          records |-> [i \in 1..Len(c[2]) |->
              [kind |-> "SignatureRespondedEvent", request_id |-> c[2][i],
               responder |-> c[1], signature |-> c[3][i]]]]

RespondErrorOutcome(c) ==
    [err |-> "Ok",
     records |-> [i \in 1..Len(c[2]) |->
         [kind |-> "SignatureErrorEvent", request_id |-> c[2][i].request_id,
          responder |-> c[1], error |-> c[2][i].error_message]]]

RespondBidirectionalOutcome(c) ==
    [err |-> "Ok",
     records |-> <<[kind |-> "RespondBidirectionalEvent", request_id |-> c[2],
                    responder |-> c[1], serialized_output |-> c[3],
                    signature |-> c[4]]>>]

\* The step reports and appends `o` and leaves the escrow state and every
\* balance as they were.
Gives(o) ==
    /\ ix'.err = o.err
    /\ Appended(o.records)
    /\ UNCHANGED <<program_state, lamports, user_balance>>

\* The stream has room for the records of `o`.
Room(o) == Len(events) + Len(o.records) <= MaxEvents

\* C34: in every state, with or without a program state and whatever the
\* admin, the deposit, the chain id and the pool are, respond, respond_error
\* and respond_bidirectional report and record what their arguments alone
\* determine, and nothing else; the escrow state and every balance stay as
\* they were.
C34_RespondersIgnoreEscrow ==
    /\ \A c \in AllCalls.respond :
          /\ Room(RespondOutcome(c)) =>
                ENABLED (respond(c[1], c[2], c[3]) /\ Gives(RespondOutcome(c)))
          /\ ~ENABLED (respond(c[1], c[2], c[3]) /\ ~Gives(RespondOutcome(c)))
    /\ \A c \in AllCalls.respond_error :
          /\ Room(RespondErrorOutcome(c)) =>
                ENABLED (respond_error(c[1], c[2]) /\ Gives(RespondErrorOutcome(c)))
          /\ ~ENABLED (respond_error(c[1], c[2]) /\ ~Gives(RespondErrorOutcome(c)))
    /\ \A c \in AllCalls.respond_bidirectional :
          /\ Room(RespondBidirectionalOutcome(c)) =>
                ENABLED (respond_bidirectional(c[1], c[2], c[3], c[4])
                            /\ Gives(RespondBidirectionalOutcome(c)))
          /\ ~ENABLED (respond_bidirectional(c[1], c[2], c[3], c[4])
                          /\ ~Gives(RespondBidirectionalOutcome(c)))

\* A response and a result have been recorded although initialize never ran:
\* no program state, no pool, every balance untouched.
C34_Witness ==
    /\ ~program_state.initialized
    /\ lamports[ProgramStateKey] = 0
    /\ \A s \in Signers : lamports[s] = InitLamports
    /\ Len(events) = 2
    /\ events[1].kind = "SignatureRespondedEvent"
    /\ events[2].kind = "RespondBidirectionalEvent"
    /\ ix = Outcome("respond_bidirectional", "Ok", 0)
\* ------------------------------------- identifiers and the callback
\* A program to call back other than the default one.
CallbackProgram == "callback"

\* The bidirectional request of the flow with another callback program and
\* other schemas.
ArgsCallback ==
    [BidirectionalArgs(SomeTx, CallbackProgram) EXCEPT
        !.output_deserialization_schema = <<3>>,
        !.respond_serialization_schema = <<4, 5>>]

\* The calls of the flow with bob's bidirectional request made in both
\* variants, paid by himself or by alice, and one request for another path.
CallbackCalls ==
    [FlowCalls EXCEPT
        !.update_deposit = {<<"alice", 0>>, <<"alice", InitLamports>>},
        !.sign_bidirectional = {"bob"} \X {NoneKey, "alice"} \X
            {BidirectionalArgs(SomeTx, DefaultPubkey), ArgsCallback,
             [ArgsCallback EXCEPT !.path = ""]}]

NextCallback == NextOn(CallbackCalls)

SpecCallback == Init /\ [][NextCallback]_vars

\* Two request records name the same requester and the same transaction,
\* chain, key version, path, algo, dest and params.
SameRequest(a, b) ==
    /\ a.sender = b.sender
    /\ a.serialized_transaction = b.serialized_transaction
    /\ a.caip2_id = b.caip2_id
    /\ a.key_version = b.key_version
    /\ a.path = b.path
    /\ a.algo = b.algo
    /\ a.dest = b.dest
    /\ a.params = b.params

\* C35: the record of a successful sign_bidirectional has the request_id of
\* every earlier bidirectional record of the same requester with the same
\* transaction, chain, key version, path, algo, dest and params, whatever the
\* callback program, the two schemas, the deposit and the payer of either
\* were; and its identifier stays the same for any other deposit.
C35_IdIgnoresCallback ==
    [][(ix'.name = "sign_bidirectional" /\ ix'.err = "Ok") =>
          LET record == events'[Len(events')]
          IN  /\ \A i \in 1..Len(events) :
                    (/\ events[i].kind = "SignBidirectionalEvent"
                     /\ SameRequest(events[i], record)) =>
                        RequestIdOf(events[i]) = RequestIdOf(record)
              /\ \A d \in 0..(InitLamports + 1) :
                    RequestIdOf([record EXCEPT !.deposit = d]) = RequestIdOf(record)]_vars

\* Two requests of bob, one paid by alice and one by himself, that differ in
\* the callback program and in both schemas: two different records under one
\* identifier.
C35_Witness ==
    /\ Len(events) = 2
    /\ events[1].kind = "SignBidirectionalEvent"
    /\ events[2].kind = "SignBidirectionalEvent"
    /\ events[1].sender = events[2].sender
    /\ events[1].program_id # events[2].program_id
    /\ events[1].output_deserialization_schema # events[2].output_deserialization_schema
    /\ events[1].respond_serialization_schema # events[2].respond_serialization_schema
    /\ RequestIdOf(events[1]) = RequestIdOf(events[2])
    /\ lamports["alice"] = 0
    /\ lamports["bob"] = InitLamports - 1
====
